---- MODULE Spec2Model ----
(***************************************************************************)
(* Model of the study handlers of QuizGo (backend/internal/api/handlers):  *)
(* UpdateCardProgress (SM-2 grading of one card_progresses row),           *)
(* GetNextCards (due/new/learning selection) and GetStudyStats, and of the *)
(* card handlers CreateCard and BulkImportCards, over the card_progresses, *)
(* flash_cards and decks tables.                                           *)
(***************************************************************************)
EXTENDS Integers, Sequences, FiniteSets, TLC

(***************************************************************************)
(* Bounds of the model.                                                    *)
(***************************************************************************)
\* a grading request is admitted only while the row it targets has fewer reviews
MaxReviews == 6
\* total number of rows' reviews admitted in the specifications with several keys
MaxGradings == 3
\* gradings admitted in the study-session specification
MaxStudy == 2
\* the clock stops advancing at this many ticks
MaxClock == 3
\* clock ticks per calendar day
TicksPerDay == 2
\* number of cards of the large deck: more than the default limit of 20
LargeDeckSize == 21
\* gradings admitted in the deck-session specification
MaxDeckGradings == 2
\* cards that may be added to the flash_cards table
MaxNewCards == 2

(***************************************************************************)
(* float64 arithmetic.  A float64 x is kept exactly as the pair (c, r)     *)
(* with x = c/100 + r * 2^-60 / 100: c is the value in hundredths the      *)
(* decimal arithmetic intends, r the binary rounding residual.  Every      *)
(* float64 of magnitude in [2^-8, 2^14) near a multiple of 1/100 has an    *)
(* integer r, and the float64 grid of the binade [2^b, 2^(b+1)) (spacing   *)
(* 2^(b-52)) is an arithmetic progression of residuals with step           *)
(* 100 * 2^(8+b).                                                          *)
(***************************************************************************)
F64(c, r) == [c |-> c, r |-> r]

\* 2^k mod 25 (2 has order 20 modulo 25)
Pow2Mod25(k) == (2 ^ (k % 20)) % 25

\* (c * 2^60) mod (25 * 2^m), for 0 <= m <= 60
GridPhase(c, m) == (2 ^ m) * (((c % 25) * Pow2Mod25(60 - m)) % 25)

\* the binary exponent b of a positive value: 2^b <= c/100 + r.. < 2^(b+1)
Exponent(c, r) ==
  CHOOSE b \in -8..14 :
    /\ \/ c * 256 > 100 * (2 ^ (b + 8))
       \/ (c * 256 = 100 * (2 ^ (b + 8)) /\ r >= 0)
    /\ \/ c * 256 < 100 * (2 ^ (b + 9))
       \/ (c * 256 = 100 * (2 ^ (b + 9)) /\ r < 0)

\* round a positive exact value to the nearest float64, ties to even
RoundPos(c, r) ==
  LET b    == Exponent(c, r)
      step == 100 * (2 ^ (8 + b))
      off  == (step - GridPhase(c, 10 + b)) % step
      lo   == r - ((r - off) % step)
      hi   == lo + step
      even == (lo + GridPhase(c, 11 + b)) % (2 * step) = 0
  IN  IF r = lo THEN F64(c, r)
      ELSE IF r - lo < hi - r THEN F64(c, lo)
      ELSE IF r - lo > hi - r THEN F64(c, hi)
      ELSE IF even THEN F64(c, lo) ELSE F64(c, hi)

\* round an exact value to the nearest float64 (zero and the difference of two
\* equal floats are exact)
Round(c, r) ==
  IF c = 0 THEN F64(0, r)
  ELSE IF c > 0 THEN RoundPos(c, r)
  ELSE LET n == RoundPos(0 - c, 0 - r) IN F64(0 - n.c, 0 - n.r)

\* the float64 of a decimal literal with c hundredths (0.1, 0.08, 0.02, 1.3, 2.5)
Lit(c) == Round(c, 0)
\* float64 + and -, and the product of an integral float64 n with x
FAdd(x, y) == Round(x.c + y.c, x.r + y.r)
FSub(x, y) == Round(x.c - y.c, x.r - y.r)
FMulInt(n, x) == Round(n * x.c, n * x.r)
\* x < y on float64
FLess(x, y) == x.c < y.c \/ (x.c = y.c /\ x.r < y.r)
\* Go's int(x) of a non-negative float64: truncation
FTrunc(x) == IF x.c % 100 = 0 /\ x.r < 0 THEN (x.c \div 100) - 1 ELSE x.c \div 100

(***************************************************************************)
(* The SM-2 update of UpdateCardProgress.                                  *)
(***************************************************************************)
\* the zero time.Time of a struct literal that sets no time
ZeroTime == 0 - 1
\* AddDate adding n ticks of the clock instead of n days
AddDateInTicks(t, n) == t + n
\* t.AddDate(0, 0, n)
AddDate(t, n) == t + n * TicksPerDay

\* the CardProgress literal of a first grading (ID 0: not yet in the table)
NewProgress(userID, cardID) ==
  [ID |-> 0, UserID |-> userID, CardID |-> cardID,
   EaseFactor |-> Lit(250), Interval |-> 0, NextReviewDate |-> ZeroTime,
   ReviewCount |-> 0, CorrectCount |-> 0, LastReviewedAt |-> ZeroTime,
   Status |-> "new"]

\* EaseDelta without the quadratic term
EaseDeltaLinear(performance) ==
  LET d == 5 - performance
  IN  FSub(Lit(10), FMulInt(d, Lit(8)))

\* 0.1 - (5-performance)*(0.08+(5-performance)*0.02)
EaseDelta(performance) ==
  LET d == 5 - performance
  IN  FSub(Lit(10), FMulInt(d, FAdd(Lit(8), FMulInt(d, Lit(2)))))

\* NewEaseFactor without its minimum
NewEaseFactorNoMinimum(ef, performance) == FAdd(ef, EaseDelta(performance))

\* NewEaseFactor with a minimum of 1.0
NewEaseFactorMinimumOne(ef, performance) ==
  LET easeFactor == FAdd(ef, EaseDelta(performance))
  IN  IF FLess(easeFactor, Lit(100)) THEN Lit(100) ELSE easeFactor

\* the new ease factor, with its minimum of 1.3
NewEaseFactor(ef, performance) ==
  LET easeFactor == FAdd(ef, EaseDelta(performance))
  IN  IF FLess(easeFactor, Lit(130)) THEN Lit(130) ELSE easeFactor

\* NewInterval without the case of a record never scheduled
NewIntervalNoFirstCase(interval, ef) ==
  IF interval = 1 THEN 6 ELSE FTrunc(FMulInt(interval, ef))

\* NewInterval without the fixed second interval of 6 days
NewIntervalNoSecondCase(interval, ef) ==
  IF interval = 0 THEN 1 ELSE FTrunc(FMulInt(interval, ef))

\* NewInterval with a fixed second interval of 8 days
NewIntervalSecondEight(interval, ef) ==
  IF interval = 0 THEN 1
  ELSE IF interval = 1 THEN 8
  ELSE FTrunc(FMulInt(interval, ef))

\* the new interval of a correct response; ef is the updated ease factor
NewInterval(interval, ef) ==
  IF interval = 0 THEN 1
  ELSE IF interval = 1 THEN 6
  ELSE FTrunc(FMulInt(interval, ef))

\* NewStatus promoting at an interval of 21 days already
NewStatusFrom21(status, newInterval) ==
  IF status = "new" THEN "learning"
  ELSE IF newInterval >= 21 THEN "review"
  ELSE status

\* NewStatus without the step from "new" to "learning"
NewStatusKeepsNew(status, newInterval) ==
  IF newInterval > 21 THEN "review" ELSE status

\* NewStatus returning a "review" record to "learning" on a correct response
NewStatusReviewLapses(status, newInterval) ==
  IF status = "new" THEN "learning"
  ELSE IF newInterval > 21 /\ status = "learning" THEN "review"
  ELSE "learning"

\* the status after a correct response
NewStatus(status, newInterval) ==
  IF status = "new" THEN "learning"
  ELSE IF newInterval > 21 THEN "review"
  ELSE status

\* advance leaving the status alone after an incorrect response
advanceKeepsStatusOnFailure(progress, performance, now) ==
  LET ef == NewEaseFactor(progress.EaseFactor, performance)
      newInterval == IF performance < 3 THEN 1
                     ELSE NewInterval(progress.Interval, ef)
  IN  [progress EXCEPT
         !.LastReviewedAt = now,
         !.ReviewCount = @ + 1,
         !.CorrectCount = IF performance >= 3 THEN @ + 1 ELSE @,
         !.EaseFactor = ef,
         !.Status = IF performance < 3 THEN @ ELSE NewStatus(@, newInterval),
         !.Interval = newInterval,
         !.NextReviewDate = AddDate(now, newInterval)]

\* advance counting a response as correct from performance 4 on
advanceCorrectFromFour(progress, performance, now) ==
  LET ef == NewEaseFactor(progress.EaseFactor, performance)
      newInterval == IF performance < 3 THEN 1
                     ELSE NewInterval(progress.Interval, ef)
  IN  [progress EXCEPT
         !.LastReviewedAt = now,
         !.ReviewCount = @ + 1,
         !.CorrectCount = IF performance >= 4 THEN @ + 1 ELSE @,
         !.EaseFactor = ef,
         !.Status = IF performance < 3 THEN "learning"
                    ELSE NewStatus(@, newInterval),
         !.Interval = newInterval,
         !.NextReviewDate = AddDate(now, newInterval)]

\* advance counting a review only when the response is correct
advanceCountsSuccessesOnly(progress, performance, now) ==
  LET ef == NewEaseFactor(progress.EaseFactor, performance)
      newInterval == IF performance < 3 THEN 1
                     ELSE NewInterval(progress.Interval, ef)
  IN  [progress EXCEPT
         !.LastReviewedAt = now,
         !.ReviewCount = IF performance >= 3 THEN @ + 1 ELSE @,
         !.CorrectCount = IF performance >= 3 THEN @ + 1 ELSE @,
         !.EaseFactor = ef,
         !.Status = IF performance < 3 THEN "learning"
                    ELSE NewStatus(@, newInterval),
         !.Interval = newInterval,
         !.NextReviewDate = AddDate(now, newInterval)]

\* the whole in-memory update of the progress struct at time now
advance(progress, performance, now) ==
  LET ef == NewEaseFactor(progress.EaseFactor, performance)
      newInterval == IF performance < 3 THEN 1
                     ELSE NewInterval(progress.Interval, ef)
  IN  [progress EXCEPT
         !.LastReviewedAt = now,
         !.ReviewCount = @ + 1,
         !.CorrectCount = IF performance >= 3 THEN @ + 1 ELSE @,
         !.EaseFactor = ef,
         !.Status = IF performance < 3 THEN "learning"
                    ELSE NewStatus(@, newInterval),
         !.Interval = newInterval,
         !.NextReviewDate = AddDate(now, newInterval)]

(***************************************************************************)
(* State.                                                                  *)
(***************************************************************************)
VARIABLES
  clock,            \* time.Now(), in ticks
  flash_cards,      \* the flash_cards table, in primary-key order
  card_progresses,  \* the card_progresses table, in primary-key order
  update,           \* the UpdateCardProgress invocation of each request slot
  selection,        \* the response of GetNextCards, while it is being sent
  accepted,         \* history: per <<user, card>>, the gradings answered 200
  card_count,       \* the card_count column of the decks table, per deck ID
  reply             \* the response of CreateCard, BulkImportCards or
                    \* GetStudyStats, while it is being sent

vars == <<clock, flash_cards, card_progresses, update, selection, accepted,
          card_count, reply>>

\* the authenticated users, and the request slots that run concurrently
Users == {1, 2}
Slots == {"a", "b"}
\* the decks table: deck 1 is private to user 1, deck 2 is user 2's public deck,
\* deck 3 is user 1's and has no cards, deck 4 is user 1's large deck
decks == <<[ID |-> 1, UserID |-> 1, IsPublic |-> FALSE],
           [ID |-> 2, UserID |-> 2, IsPublic |-> TRUE],
           [ID |-> 3, UserID |-> 1, IsPublic |-> FALSE],
           [ID |-> 4, UserID |-> 1, IsPublic |-> FALSE]>>
\* the cards present at start: three in deck 1, one in deck 2, and the cards
\* 6, 7, ... of deck 4 (card 5 was deleted)
InitialCards == <<[ID |-> 1, DeckID |-> 1], [ID |-> 2, DeckID |-> 1],
                  [ID |-> 3, DeckID |-> 1], [ID |-> 4, DeckID |-> 2]>>
                \o [i \in 1..LargeDeckSize |-> [ID |-> 5 + i, DeckID |-> 4]]

\* the elements of a sequence
Range(s) == {s[i] : i \in 1..Len(s)}
Min(a, b) == IF a < b THEN a ELSE b

\* db.First(&card, id): the row with that primary key, or none
FindByID(table, id) == {row \in Range(table) : row.ID = id}

\* db.Where("user_id = ? AND card_id = ?").First(&progress): the matching row of
\* lowest primary key, or none
FirstProgress(userID, cardID) ==
  LET idx == {i \in 1..Len(card_progresses) :
                /\ card_progresses[i].UserID = userID
                /\ card_progresses[i].CardID = cardID}
  IN  IF idx = {} THEN {}
      ELSE {card_progresses[CHOOSE i \in idx : \A j \in idx : i <= j]}

\* a slot with no invocation in progress; TimeSpent is the time_spent of the
\* request, 0 when the body does not carry one
\* var progress models.CardProgress: the zero value
ZeroProgress ==
  [ID |-> 0, UserID |-> 0, CardID |-> 0, EaseFactor |-> F64(0, 0), Interval |-> 0,
   NextReviewDate |-> ZeroTime, ReviewCount |-> 0, CorrectCount |-> 0,
   LastReviewedAt |-> ZeroTime, Status |-> ""]
\* seen and order are history: the number of gradings answered 200 before the
\* record was looked up, and the position of this grading among them
Idle == [pc |-> "idle", userID |-> 0, CardID |-> 0, Performance |-> 0,
         isNew |-> FALSE, read |-> ZeroProgress, progress |-> ZeroProgress,
         code |-> 0, seen |-> 0, order |-> 0, TimeSpent |-> 0]
NoSelection == [code |-> 0]
NoReply == [code |-> 0]

Init ==
  /\ clock = 0
  /\ flash_cards = InitialCards
  /\ card_progresses = <<>>
  /\ update = [r \in Slots |-> Idle]
  /\ selection = NoSelection
  /\ accepted = <<>>
  /\ card_count = [d \in {deck.ID : deck \in Range(decks)} |->
                     Len(SelectSeq(InitialCards, LAMBDA card : card.DeckID = d))]
  /\ reply = NoReply

RECURSIVE SumGradings(_)
SumGradings(keys) ==
  IF keys = {} THEN 0
  ELSE LET key == CHOOSE k \in keys : TRUE
       IN  accepted[key].gradings + SumGradings(keys \ {key})
\* the number of gradings answered 200 so far
TotalAccepted == SumGradings(DOMAIN accepted)

\* the history after one more grading of the request's card was answered 200
Accept(request) ==
  LET key == <<request.userID, request.CardID>>
      old == IF key \in DOMAIN accepted THEN accepted[key]
             ELSE [gradings |-> 0, correct |-> 0]
      new == [gradings |-> old.gradings + 1,
              correct |-> old.correct + (IF request.Performance >= 3 THEN 1 ELSE 0)]
  IN  [k \in DOMAIN accepted \cup {key} |-> IF k = key THEN new ELSE accepted[k]]

(***************************************************************************)
(* UpdateCardProgress, in the steps at which it touches the database.      *)
(***************************************************************************)
\* Receive binding performance without its maximum of 5
ReceiveNoMaximum(r, userID, cardID, performance) ==
  /\ update[r].pc \in {"idle", "done"}
  /\ LET card == FindByID(flash_cards, cardID)
         deck == UNION {FindByID(decks, c.DeckID) : c \in card}
         code == IF cardID = 0 \/ performance < 1 THEN 400
                 ELSE IF card = {} THEN 404
                 ELSE IF \E d \in deck : ~d.IsPublic /\ d.UserID # userID THEN 403
                 ELSE 0
     IN  update' = [update EXCEPT ![r] =
           [Idle EXCEPT !.pc = IF code # 0 THEN "done" ELSE "lookup",
                        !.code = code, !.userID = userID,
                        !.CardID = cardID, !.Performance = performance]]
  /\ selection' = NoSelection
  /\ reply' = NoReply
  /\ UNCHANGED <<clock, flash_cards, card_progresses, accepted, card_count>>

\* binding, card lookup and permission check; a rejected request ends here
Receive(r, userID, cardID, performance) ==
  /\ update[r].pc \in {"idle", "done"}
  /\ LET card == FindByID(flash_cards, cardID)
         deck == UNION {FindByID(decks, c.DeckID) : c \in card}
         code == IF cardID = 0 \/ performance < 1 \/ performance > 5 THEN 400
                 ELSE IF card = {} THEN 404
                 ELSE IF \E d \in deck : ~d.IsPublic /\ d.UserID # userID THEN 403
                 ELSE 0
     IN  update' = [update EXCEPT ![r] =
           [Idle EXCEPT !.pc = IF code # 0 THEN "done" ELSE "lookup",
                        !.code = code, !.userID = userID,
                        !.CardID = cardID, !.Performance = performance]]
  /\ selection' = NoSelection
  /\ reply' = NoReply
  /\ UNCHANGED <<clock, flash_cards, card_progresses, accepted, card_count>>

\* Receive of a request whose body carries time_spent
ReceiveTimeSpent(r, userID, cardID, performance, timeSpent) ==
  /\ update[r].pc \in {"idle", "done"}
  /\ LET card == FindByID(flash_cards, cardID)
         deck == UNION {FindByID(decks, c.DeckID) : c \in card}
         code == IF cardID = 0 \/ performance < 1 \/ performance > 5 THEN 400
                 ELSE IF card = {} THEN 404
                 ELSE IF \E d \in deck : ~d.IsPublic /\ d.UserID # userID THEN 403
                 ELSE 0
     IN  update' = [update EXCEPT ![r] =
           [Idle EXCEPT !.pc = IF code # 0 THEN "done" ELSE "lookup",
                        !.code = code, !.userID = userID,
                        !.CardID = cardID, !.Performance = performance,
                        !.TimeSpent = timeSpent]]
  /\ selection' = NoSelection
  /\ reply' = NoReply
  /\ UNCHANGED <<clock, flash_cards, card_progresses, accepted, card_count>>

\* get or create the progress record
Lookup(r) ==
  /\ update[r].pc = "lookup"
  /\ LET found == FirstProgress(update[r].userID, update[r].CardID)
         progress == IF found = {}
                     THEN NewProgress(update[r].userID, update[r].CardID)
                     ELSE CHOOSE row \in found : TRUE
     IN  update' = [update EXCEPT ![r].pc = "compute",
                                  ![r].seen = TotalAccepted,
                                  ![r].isNew = (found = {}),
                                  ![r].read = progress,
                                  ![r].progress = progress]
  /\ selection' = NoSelection
  /\ reply' = NoReply
  /\ UNCHANGED <<clock, flash_cards, card_progresses, accepted, card_count>>

\* the lookup returns an error other than "record not found" (the database is
\* locked, the connection is lost): err != nil, so isNew is true and progress
\* is replaced by the defaults, whether or not a row exists
LookupFailed(r) ==
  /\ update[r].pc = "lookup"
  /\ LET progress == NewProgress(update[r].userID, update[r].CardID)
     IN  update' = [update EXCEPT ![r].pc = "compute",
                                  ![r].seen = TotalAccepted,
                                  ![r].isNew = TRUE,
                                  ![r].read = progress,
                                  ![r].progress = progress]
  /\ selection' = NoSelection
  /\ reply' = NoReply
  /\ UNCHANGED <<clock, flash_cards, card_progresses, accepted, card_count>>

\* Compute taking one off the performance of a request that carries time_spent
ComputeTimeSpentLowersGrade(r) ==
  /\ update[r].pc = "compute"
  /\ update' = [update EXCEPT
       ![r].pc = "save",
       ![r].progress =
          advance(update[r].progress,
                  IF update[r].TimeSpent > 0 /\ update[r].Performance > 1
                  THEN update[r].Performance - 1 ELSE update[r].Performance,
                  clock)]
  /\ selection' = NoSelection
  /\ reply' = NoReply
  /\ UNCHANGED <<clock, flash_cards, card_progresses, accepted, card_count>>

\* the SM-2 update of the in-memory record, at time.Now()
Compute(r) ==
  /\ update[r].pc = "compute"
  /\ update' = [update EXCEPT
       ![r].pc = "save",
       ![r].progress = advance(update[r].progress, update[r].Performance, clock)]
  /\ selection' = NoSelection
  /\ reply' = NoReply
  /\ UNCHANGED <<clock, flash_cards, card_progresses, accepted, card_count>>

\* Save refusing to overwrite a row that changed since it was read
SaveIfUnchanged(r) ==
  /\ update[r].pc = "save"
  /\ LET created == [update[r].progress EXCEPT !.ID = Len(card_progresses) + 1]
     IN  IF update[r].isNew
         THEN /\ card_progresses' = Append(card_progresses, created)
              /\ update' = [update EXCEPT ![r].pc = "done", ![r].code = 200,
                                           ![r].order = TotalAccepted + 1,
                                           ![r].progress = created]
         ELSE IF card_progresses[update[r].progress.ID] # update[r].read
         THEN /\ card_progresses' = card_progresses
              /\ update' = [update EXCEPT ![r].pc = "done", ![r].code = 409]
         ELSE /\ card_progresses' =
                   [card_progresses EXCEPT ![update[r].progress.ID] = update[r].progress]
              /\ update' = [update EXCEPT ![r].pc = "done", ![r].code = 200,
                                           ![r].order = TotalAccepted + 1]
  /\ accepted' = IF update'[r].code = 200 THEN Accept(update[r]) ELSE accepted
  /\ selection' = NoSelection
  /\ reply' = NoReply
  /\ UNCHANGED <<clock, flash_cards, card_count>>

\* Save writing the scheduling fields to every row of the card, whichever user
\* it belongs to
SaveEveryRowOfCard(r) ==
  /\ update[r].pc = "save"
  /\ LET created == [update[r].progress EXCEPT !.ID = Len(card_progresses) + 1]
     IN  IF update[r].isNew
         THEN /\ card_progresses' = Append(card_progresses, created)
              /\ update' = [update EXCEPT ![r].pc = "done", ![r].code = 200,
                                           ![r].order = TotalAccepted + 1,
                                           ![r].progress = created]
         ELSE /\ card_progresses' =
                   [i \in 1..Len(card_progresses) |->
                      IF card_progresses[i].CardID = update[r].progress.CardID
                      THEN [update[r].progress EXCEPT
                              !.ID = card_progresses[i].ID,
                              !.UserID = card_progresses[i].UserID]
                      ELSE card_progresses[i]]
              /\ update' = [update EXCEPT ![r].pc = "done", ![r].code = 200,
                                           ![r].order = TotalAccepted + 1]
  /\ accepted' = IF update'[r].code = 200 THEN Accept(update[r]) ELSE accepted
  /\ selection' = NoSelection
  /\ reply' = NoReply
  /\ UNCHANGED <<clock, flash_cards, card_count>>

\* db.Create of a new row (next primary key) or db.Save of the row read
Save(r) ==
  /\ update[r].pc = "save"
  /\ LET created == [update[r].progress EXCEPT !.ID = Len(card_progresses) + 1]
     IN  IF update[r].isNew
         THEN /\ card_progresses' = Append(card_progresses, created)
              /\ update' = [update EXCEPT ![r].pc = "done", ![r].code = 200,
                                           ![r].order = TotalAccepted + 1,
                                           ![r].progress = created]
         ELSE /\ card_progresses' =
                   [card_progresses EXCEPT ![update[r].progress.ID] = update[r].progress]
              /\ update' = [update EXCEPT ![r].pc = "done", ![r].code = 200,
                                           ![r].order = TotalAccepted + 1]
  /\ accepted' = IF update'[r].code = 200 THEN Accept(update[r]) ELSE accepted
  /\ selection' = NoSelection
  /\ reply' = NoReply
  /\ UNCHANGED <<clock, flash_cards, card_count>>

\* db.Create or db.Save returns an error: the request is answered 500 and the
\* table is left as it was
SaveFailed(r) ==
  /\ update[r].pc = "save"
  /\ update' = [update EXCEPT ![r].pc = "done", ![r].code = 500]
  /\ selection' = NoSelection
  /\ reply' = NoReply
  /\ UNCHANGED <<clock, flash_cards, card_progresses, accepted, card_count>>

\* time passes
Tick ==
  /\ clock < MaxClock
  /\ clock' = clock + 1
  /\ selection' = NoSelection
  /\ reply' = NoReply
  /\ UNCHANGED <<flash_cards, card_progresses, update, accepted, card_count>>

(***************************************************************************)
(* GetNextCards.                                                           *)
(***************************************************************************)
\* progressMap[cardID]: of the user's rows for the card, the one a later row of
\* the result does not replace
ProgressMap(userID, cardID) ==
  LET idx == {i \in 1..Len(card_progresses) :
                /\ card_progresses[i].UserID = userID
                /\ card_progresses[i].CardID = cardID}
  IN  IF idx = {} THEN {}
      ELSE {card_progresses[CHOOSE i \in idx : \A j \in idx : i >= j]}

\* the cards of the deck, as db.Where("deck_id = ?").Find lists them
DeckCards(deckID) == SelectSeq(flash_cards, LAMBDA card : card.DeckID = deckID)

IsNewCard(userID, card) == ProgressMap(userID, card.ID) = {}
\* IsDueCard counting a review date equal to now as passed
IsDueCardAtNow(userID, card, now) ==
  \E progress \in ProgressMap(userID, card.ID) : progress.NextReviewDate <= now
\* IsDueCard without the date comparison
IsDueCardAnyProgress(userID, card, now) == ProgressMap(userID, card.ID) # {}
\* IsDueCard comparing the date of the last review instead
IsDueCardSinceLastReview(userID, card, now) ==
  \E progress \in ProgressMap(userID, card.ID) : progress.LastReviewedAt < now
IsDueCard(userID, card, now) ==
  \E progress \in ProgressMap(userID, card.ID) : progress.NextReviewDate < now
\* IsLearningCard leaving out a review date equal to now
IsLearningCardStrictlyAfter(userID, card, now) ==
  \E progress \in ProgressMap(userID, card.ID) : progress.NextReviewDate > now
IsLearningCard(userID, card, now) ==
  \E progress \in ProgressMap(userID, card.ID) : ~(progress.NextReviewDate < now)

\* one entry of cardsToReturn
Entry(userID, card, status) ==
  [card |-> card.ID, progress |-> ProgressMap(userID, card.ID), status |-> status]
Entries(userID, cards, status) ==
  [i \in 1..Len(cards) |-> Entry(userID, cards[i], status)]

\* CardsToReturn not counting the due cards against the limit
CardsToReturnLimitPerBucket(userID, dueCards, newCards, limit) ==
  LET due == SubSeq(dueCards, 1, Min(limit, Len(dueCards)))
      new == SubSeq(newCards, 1, Min(limit, Len(newCards)))
  IN  Entries(userID, due, "due") \o Entries(userID, new, "new")

\* CardsToReturn keeping the last due cards of the deck instead of the first
CardsToReturnLastDue(userID, dueCards, newCards, limit) ==
  LET n == Min(limit, Len(dueCards))
      due == SubSeq(dueCards, Len(dueCards) - n + 1, Len(dueCards))
      remainingLimit == limit - Len(due)
      new == SubSeq(newCards, 1, Min(remainingLimit, Len(newCards)))
  IN  Entries(userID, due, "due") \o Entries(userID, new, "new")

\* due cards first, then new cards, while remainingLimit > 0
CardsToReturn(userID, dueCards, newCards, limit) ==
  LET due == SubSeq(dueCards, 1, Min(limit, Len(dueCards)))
      remainingLimit == limit - Len(due)
      new == SubSeq(newCards, 1, Min(remainingLimit, Len(newCards)))
  IN  Entries(userID, due, "due") \o Entries(userID, new, "new")

\* NextCardsResponse with a default limit of 10
NextCardsResponseDefaultTen(userID, deckID, reqLimit, now) ==
  LET limit == IF reqLimit <= 0 THEN 10 ELSE reqLimit
      deck == FindByID(decks, deckID)
      cards == DeckCards(deckID)
      newCards == SelectSeq(cards, LAMBDA card : IsNewCard(userID, card))
      dueCards == SelectSeq(cards, LAMBDA card : IsDueCard(userID, card, now))
      learningCards == SelectSeq(cards, LAMBDA card : IsLearningCard(userID, card, now))
      request == [userID |-> userID, DeckID |-> deckID, Limit |-> reqLimit]
  IN  IF deckID = 0 THEN [code |-> 400]
      ELSE IF deck = {} THEN [code |-> 404]
      ELSE IF \E d \in deck : ~d.IsPublic /\ d.UserID # userID
        THEN [code |-> 403]
      ELSE IF Len(cards) = 0
        THEN [code |-> 200, request |-> request, cards |-> <<>>,
              message |-> "No cards in this deck"]
      ELSE [code |-> 200, request |-> request,
            cards |-> CardsToReturn(userID, dueCards, newCards, limit),
            due_count |-> Len(dueCards), new_count |-> Len(newCards),
            learning_count |-> Len(learningCards)]

\* NextCardsResponse sending the message whenever the batch is empty
NextCardsResponseSignalsEmptyBatch(userID, deckID, reqLimit, now) ==
  LET limit == IF reqLimit <= 0 THEN 20 ELSE reqLimit
      deck == FindByID(decks, deckID)
      cards == DeckCards(deckID)
      newCards == SelectSeq(cards, LAMBDA card : IsNewCard(userID, card))
      dueCards == SelectSeq(cards, LAMBDA card : IsDueCard(userID, card, now))
      learningCards == SelectSeq(cards, LAMBDA card : IsLearningCard(userID, card, now))
      request == [userID |-> userID, DeckID |-> deckID, Limit |-> reqLimit]
  IN  IF deckID = 0 THEN [code |-> 400]
      ELSE IF deck = {} THEN [code |-> 404]
      ELSE IF \E d \in deck : ~d.IsPublic /\ d.UserID # userID
        THEN [code |-> 403]
      ELSE IF Len(cards) = 0 \/ CardsToReturn(userID, dueCards, newCards, limit) = <<>>
        THEN [code |-> 200, request |-> request, cards |-> <<>>,
              message |-> "No cards in this deck"]
      ELSE [code |-> 200, request |-> request,
            cards |-> CardsToReturn(userID, dueCards, newCards, limit),
            due_count |-> Len(dueCards), new_count |-> Len(newCards),
            learning_count |-> Len(learningCards)]

\* the response of GetNextCards
NextCardsResponse(userID, deckID, reqLimit, now) ==
  LET limit == IF reqLimit <= 0 THEN 20 ELSE reqLimit
      deck == FindByID(decks, deckID)
      cards == DeckCards(deckID)
      newCards == SelectSeq(cards, LAMBDA card : IsNewCard(userID, card))
      dueCards == SelectSeq(cards, LAMBDA card : IsDueCard(userID, card, now))
      learningCards == SelectSeq(cards, LAMBDA card : IsLearningCard(userID, card, now))
      request == [userID |-> userID, DeckID |-> deckID, Limit |-> reqLimit]
  IN  IF deckID = 0 THEN [code |-> 400]
      ELSE IF deck = {} THEN [code |-> 404]
      ELSE IF \E d \in deck : ~d.IsPublic /\ d.UserID # userID
        THEN [code |-> 403]
      ELSE IF Len(cards) = 0
        THEN [code |-> 200, request |-> request, cards |-> <<>>,
              message |-> "No cards in this deck"]
      ELSE [code |-> 200, request |-> request,
            cards |-> CardsToReturn(userID, dueCards, newCards, limit),
            due_count |-> Len(dueCards), new_count |-> Len(newCards),
            learning_count |-> Len(learningCards)]

\* GetNextCards storing a "new" record for the first card it returns
GetNextCardsCreatingRecords(userID, deckID, reqLimit) ==
  /\ selection = NoSelection
  /\ reply = NoReply
  /\ selection' = NextCardsResponse(userID, deckID, reqLimit, clock)
  /\ reply' = NoReply
  /\ card_progresses' =
       IF selection'.code = 200 /\ Len(selection'.cards) > 0
       THEN Append(card_progresses,
                   [NewProgress(userID, selection'.cards[1].card)
                      EXCEPT !.ID = Len(card_progresses) + 1])
       ELSE card_progresses
  /\ UNCHANGED <<clock, flash_cards, update, accepted, card_count>>

\* one request at a time: the next one starts when the response has been sent
GetNextCards(userID, deckID, reqLimit) ==
  /\ selection = NoSelection
  /\ reply = NoReply
  /\ selection' = NextCardsResponse(userID, deckID, reqLimit, clock)
  /\ reply' = NoReply
  /\ UNCHANGED <<clock, flash_cards, card_progresses, update, accepted, card_count>>

(***************************************************************************)
(* CreateCard and BulkImportCards (CardHandler).                           *)
(***************************************************************************)
\* the primary key the next flash_cards row gets
NextCardID ==
  LET ids == {card.ID : card \in Range(flash_cards)} \cup {0}
  IN  (CHOOSE i \in ids : \A j \in ids : i >= j) + 1

\* db.Where("id = ? AND user_id = ?").First(&deck)
OwnDeck(userID, deckID) == {deck \in Range(decks) : deck.ID = deckID /\ deck.UserID = userID}

\* n new rows of flash_cards for the deck, and the deck's new card_count
AddCards(deckID, n) ==
  /\ flash_cards' = flash_cards \o
       [i \in 1..n |-> [ID |-> NextCardID + i - 1, DeckID |-> deckID]]
  /\ card_count' = [card_count EXCEPT ![deckID] = @ + n]

\* CreateCard storing a "new" progress record of the caller for the card
CreateCardWithProgress(userID, deckID) ==
  /\ selection = NoSelection /\ reply = NoReply
  /\ IF deckID = 0
       THEN reply' = [code |-> 400]
            /\ UNCHANGED <<flash_cards, card_count, card_progresses>>
     ELSE IF OwnDeck(userID, deckID) = {}
       THEN reply' = [code |-> 404]
            /\ UNCHANGED <<flash_cards, card_count, card_progresses>>
     ELSE /\ AddCards(deckID, 1)
          /\ card_progresses' =
               Append(card_progresses,
                      [NewProgress(userID, NextCardID)
                         EXCEPT !.ID = Len(card_progresses) + 1])
          /\ reply' = [code |-> 201, card |-> NextCardID]
  /\ selection' = NoSelection
  /\ UNCHANGED <<clock, update, accepted>>

\* CreateCard: one card in a deck of the caller
CreateCard(userID, deckID) ==
  /\ selection = NoSelection /\ reply = NoReply
  /\ IF deckID = 0
       THEN reply' = [code |-> 400] /\ UNCHANGED <<flash_cards, card_count>>
     ELSE IF OwnDeck(userID, deckID) = {}
       THEN reply' = [code |-> 404] /\ UNCHANGED <<flash_cards, card_count>>
     ELSE /\ AddCards(deckID, 1)
          /\ reply' = [code |-> 201, card |-> NextCardID]
  /\ selection' = NoSelection
  /\ UNCHANGED <<clock, card_progresses, update, accepted>>

\* BulkImportCards: n cards in a deck of the caller, in one transaction
BulkImportCards(userID, deckID, n) ==
  /\ selection = NoSelection /\ reply = NoReply
  /\ IF deckID = 0
       THEN reply' = [code |-> 400] /\ UNCHANGED <<flash_cards, card_count>>
     ELSE IF OwnDeck(userID, deckID) = {}
       THEN reply' = [code |-> 404] /\ UNCHANGED <<flash_cards, card_count>>
     ELSE /\ AddCards(deckID, n)
          /\ reply' = [code |-> 201, imported |-> n,
                        new_count |-> card_count[deckID] + n]
  /\ selection' = NoSelection
  /\ UNCHANGED <<clock, card_progresses, update, accepted>>

(***************************************************************************)
(* GetStudyStats.                                                          *)
(***************************************************************************)
RECURSIVE SumOf(_, _)
\* COALESCE(SUM(column), 0) over the selected rows
SumOf(rows, column) ==
  IF rows = <<>> THEN 0 ELSE Head(rows)[column] + SumOf(Tail(rows), column)

RECURSIVE GCD(_, _)
GCD(a, b) == IF b = 0 THEN a ELSE GCD(b, a % b)
\* float64(totalCorrect) / float64(totalReviewed) * 100, kept as the fraction
\* totalCorrect / totalReviewed in lowest terms; 0 when nothing was reviewed
Accuracy(totalCorrect, totalReviewed) ==
  IF totalReviewed > 0
  THEN [correct |-> totalCorrect \div GCD(totalCorrect, totalReviewed),
        reviewed |-> totalReviewed \div GCD(totalCorrect, totalReviewed)]
  ELSE [correct |-> 0, reviewed |-> 1]

\* the calendar day of an instant
DayOf(t) == t \div TicksPerDay

RECURSIVE Ascending(_)
\* the elements of a set of days in ascending order
Ascending(days) ==
  IF days = {} THEN <<>>
  ELSE LET first == CHOOSE d \in days : \A e \in days : d <= e
       IN  <<first>> \o Ascending(days \ {first})

\* DailyActivity without the condition on user_id
DailyActivityOfAllUsers(userID, now) ==
  LET startOfWeek == (DayOf(now) - 7) * TicksPerDay
      rows == {i \in 1..Len(card_progresses) :
                 card_progresses[i].LastReviewedAt >= startOfWeek}
      days == Ascending({DayOf(card_progresses[i].LastReviewedAt) : i \in rows})
  IN  [k \in 1..Len(days) |->
         [date |-> days[k],
          reviews |-> Cardinality({i \in rows :
                        DayOf(card_progresses[i].LastReviewedAt) = days[k]})]]

\* the raw query: the user's rows reviewed since the start of the day seven
\* days ago, counted per date(last_reviewed_at), ordered by date
DailyActivity(userID, now) ==
  LET startOfWeek == (DayOf(now) - 7) * TicksPerDay
      rows == {i \in 1..Len(card_progresses) :
                 /\ card_progresses[i].UserID = userID
                 /\ card_progresses[i].LastReviewedAt >= startOfWeek}
      days == Ascending({DayOf(card_progresses[i].LastReviewedAt) : i \in rows})
  IN  [k \in 1..Len(days) |->
         [date |-> days[k],
          reviews |-> Cardinality({i \in rows :
                        DayOf(card_progresses[i].LastReviewedAt) = days[k]})]]

\* StatsResponse counting as new also the cards of the deck that the user has
\* no record of
StatsResponseCountsUnseenCards(userID, deckID, now) ==
  LET deck == FindByID(decks, deckID)
      own == SelectSeq(card_progresses, LAMBDA row : row.UserID = userID)
      query == IF deckID > 0
               THEN SelectSeq(own, LAMBDA row :
                      \E card \in Range(flash_cards) :
                        card.ID = row.CardID /\ card.DeckID = deckID)
               ELSE own
      queryNew == SelectSeq(query, LAMBDA row : row.Status = "new")
      queryLearning == SelectSeq(queryNew, LAMBDA row : row.Status = "learning")
      queryReview == SelectSeq(queryLearning, LAMBDA row : row.Status = "review")
      totalReviewed == SumOf(queryReview, "ReviewCount")
      totalCorrect == SumOf(queryReview, "CorrectCount")
      queryDue == SelectSeq(queryReview, LAMBDA row :
                    DayOf(row.NextReviewDate) <= DayOf(now))
  IN  IF deckID > 0 /\ deck = {} THEN [code |-> 404]
      ELSE IF deckID > 0 /\ \E d \in deck : ~d.IsPublic /\ d.UserID # userID
        THEN [code |-> 403]
      ELSE [code |-> 200,
            request |-> [userID |-> userID, DeckID |-> deckID],
            new_count |-> Len(queryNew)
                          + Cardinality({card \in Range(flash_cards) :
                               /\ card.DeckID = deckID
                               /\ \A row \in Range(own) : row.CardID # card.ID}),
            learning_count |-> Len(queryLearning),
            review_count |-> Len(queryReview),
            due_today |-> Len(queryDue),
            total_reviewed |-> totalReviewed,
            accuracy |-> Accuracy(totalCorrect, totalReviewed),
            daily_activity |-> DailyActivity(userID, now)]

\* the response of GetStudyStats.  query is one gorm statement: each
\* query.Where(...) adds its condition to it for this and every later use
StatsResponse(userID, deckID, now) ==
  LET deck == FindByID(decks, deckID)
      own == SelectSeq(card_progresses, LAMBDA row : row.UserID = userID)
      query == IF deckID > 0
               THEN SelectSeq(own, LAMBDA row :
                      \E card \in Range(flash_cards) :
                        card.ID = row.CardID /\ card.DeckID = deckID)
               ELSE own
      queryNew == SelectSeq(query, LAMBDA row : row.Status = "new")
      queryLearning == SelectSeq(queryNew, LAMBDA row : row.Status = "learning")
      queryReview == SelectSeq(queryLearning, LAMBDA row : row.Status = "review")
      totalReviewed == SumOf(queryReview, "ReviewCount")
      totalCorrect == SumOf(queryReview, "CorrectCount")
      queryDue == SelectSeq(queryReview, LAMBDA row :
                    DayOf(row.NextReviewDate) <= DayOf(now))
  IN  IF deckID > 0 /\ deck = {} THEN [code |-> 404]
      ELSE IF deckID > 0 /\ \E d \in deck : ~d.IsPublic /\ d.UserID # userID
        THEN [code |-> 403]
      ELSE [code |-> 200,
            request |-> [userID |-> userID, DeckID |-> deckID],
            new_count |-> Len(queryNew),
            learning_count |-> Len(queryLearning),
            review_count |-> Len(queryReview),
            due_today |-> Len(queryDue),
            total_reviewed |-> totalReviewed,
            accuracy |-> Accuracy(totalCorrect, totalReviewed),
            daily_activity |-> DailyActivity(userID, now)]

GetStudyStats(userID, deckID) ==
  /\ selection = NoSelection /\ reply = NoReply
  /\ reply' = StatsResponse(userID, deckID, clock)
  /\ selection' = NoSelection
  /\ UNCHANGED <<clock, flash_cards, card_progresses, update, accepted, card_count>>

(***************************************************************************)
(* Specifications.                                                         *)
(***************************************************************************)
RECURSIVE SumReviews(_)
SumReviews(rows) ==
  IF rows = <<>> THEN 0 ELSE Head(rows).ReviewCount + SumReviews(Tail(rows))
InFlight == Cardinality({r \in Slots : update[r].pc \in {"lookup", "compute", "save"}})
\* fewer than n gradings were applied or are in progress
Admit(n) == SumReviews(card_progresses) + InFlight < n

\* one learner grading one card again and again
NextCard ==
  \/ \E p \in 1..5 : Admit(MaxReviews) /\ Receive("a", 1, 1, p)
  \/ Lookup("a")
  \/ Compute("a")
  \/ Save("a")
SpecCard == Init /\ [][NextCard]_vars

\* the UpdateCardProgress requests <<user, card_id, performance>> that race:
\* user 1 on the private card 1, both users on the public card 4, user 2 on
\* the private card 1, a missing card_id (0), a missing performance (0), a
\* performance above 5, and the card 5 that does not exist
RaceRequests ==
  {<<1, 1, 2>>, <<1, 1, 5>>, <<1, 4, 2>>, <<2, 4, 5>>,
   <<2, 1, 2>>, <<1, 0, 2>>, <<1, 1, 0>>, <<1, 1, 6>>, <<1, 5, 2>>}

\* two concurrent requests of two users on a private and a public card
NextRace ==
  \/ \E r \in Slots, q \in RaceRequests :
       Admit(MaxGradings) /\ Receive(r, q[1], q[2], q[3])
  \/ \E r \in Slots : Lookup(r)
  \/ \E r \in Slots : Compute(r)
  \/ \E r \in Slots : Save(r)
SpecRace == Init /\ [][NextRace]_vars

\* the GetNextCards requests <<user, deck_id, limit>> of the study sessions:
\* deck 1 with a missing limit and with limits -1, 1, 2 and 20, the empty deck
\* 3, the large deck 4 with a missing limit and with limit 20, a missing
\* deck_id, the unknown deck 5, and user 2 on the private deck 1
SelectionRequests ==
  {<<1, 1, 0>>, <<1, 1, 0 - 1>>, <<1, 1, 1>>, <<1, 1, 2>>, <<1, 1, 20>>,
   <<1, 3, 1>>, <<1, 4, 0>>, <<1, 4, 20>>,
   <<1, 0, 1>>, <<1, 5, 1>>, <<2, 1, 1>>}

\* the gradings <<card_id, performance>> of the study sessions: every card of
\* deck 1 may be graded 4, and card 1 may be graded 2
StudyGradings == {<<1, 2>>, <<1, 4>>, <<2, 4>>, <<3, 4>>}

\* the GetStudyStats requests <<user, deck_id>> of the study sessions: without
\* deck filter and on deck 1
StudyStatsRequests == {<<1, 0>>, <<1, 1>>}

\* study sessions of user 1 on deck 1: gradings one at a time, selection by
\* either user, statistics, and the passing of time
Next ==
  \/ \E g \in StudyGradings :
       Admit(MaxStudy) /\ Receive("a", 1, g[1], g[2])
  \/ Lookup("a")
  \/ Compute("a")
  \/ Save("a")
  \/ Tick
  \/ \E q \in SelectionRequests : GetNextCards(q[1], q[2], q[3])
  \/ \E q \in StudyStatsRequests : GetStudyStats(q[1], q[2])
Spec == Init /\ [][Next]_vars

\* the IDs of the cards of a deck
CardIDs(deckID) == {card.ID : card \in {c \in Range(flash_cards) : c.DeckID = deckID}}
\* the cards added since the start
Created == Len(flash_cards) - Len(InitialCards)

\* the GetNextCards requests <<user, deck_id, limit>> of the deck sessions: the
\* owner on deck 3, either user on the public deck 2, user 2 on the private
\* deck 3, and a missing deck_id
DeckRequests == {<<1, 3, 0>>, <<2, 2, 0>>, <<1, 2, 1>>, <<2, 3, 0>>, <<1, 0, 0>>}
\* the GetStudyStats requests <<user, deck_id>>: without deck filter, on an
\* own deck, on the public deck, on the private deck of the other user, and
\* on the unknown deck 5
StatsRequests == {<<1, 0>>, <<2, 0>>, <<1, 3>>, <<1, 2>>, <<2, 3>>, <<1, 5>>}

\* two users filling deck 3 and studying it and the public deck 2, one request
\* at a time
NextDeck ==
  \/ \E u \in Users, p \in {2, 5} : \E c \in CardIDs(2) \cup CardIDs(3) :
       Admit(MaxDeckGradings) /\ Receive("a", u, c, p)
  \/ Lookup("a")
  \/ Compute("a")
  \/ Save("a")
  \/ \E u \in Users, d \in {0, 3} : Created < MaxNewCards /\ CreateCard(u, d)
  \/ \E u \in Users, d \in {0, 3} :
       Created + 2 <= MaxNewCards /\ BulkImportCards(u, d, 2)
  \/ \E q \in DeckRequests : GetNextCards(q[1], q[2], q[3])
  \/ \E q \in StatsRequests : GetStudyStats(q[1], q[2])
SpecDeck == Init /\ [][NextDeck]_vars

\* the gradings of a session in which database calls may fail
MaxFaultGradings == 3
\* one learner grading one card while the lookup and the write of the record
\* may return an error
NextFault ==
  \/ \E p \in {2, 4, 5} : Admit(MaxFaultGradings) /\ Receive("a", 1, 1, p)
  \/ Lookup("a")
  \/ LookupFailed("a")
  \/ Compute("a")
  \/ Save("a")
  \/ SaveFailed("a")
SpecFault == Init /\ [][NextFault]_vars

\* the gradings of a session whose requests carry time_spent
MaxTimedGradings == 3
\* the time_spent values of the requests: absent, and half a minute
TimeSpentValues == {0, 30}
\* one learner grading one card over the days, every request with or without
\* time_spent
NextTimed ==
  \/ \E p \in 1..5, t \in TimeSpentValues :
       Admit(MaxTimedGradings) /\ ReceiveTimeSpent("a", 1, 1, p, t)
  \/ Lookup("a")
  \/ Compute("a")
  \/ Save("a")
  \/ Tick
SpecTimed == Init /\ [][NextTimed]_vars

(***************************************************************************)
(* Properties.                                                             *)
(***************************************************************************)
Rows == Range(card_progresses)
\* the slots whose request was applied (response 200)
Applied == {r \in Slots : update[r].pc = "done" /\ update[r].code = 200}

\* C1: after any sequence of gradings with performance 1..5 from an absent
\* record, the stored ease factor of every progress record is >= 1.3
C1_EaseFactorAtLeastMinimum ==
  \A row \in Rows : ~FLess(row.EaseFactor, Lit(130))
\* a grading whose sum fell below 1.3 was applied and stored as exactly 1.3
C1_Witness ==
  \E r \in Applied :
    /\ FLess(FAdd(update[r].read.EaseFactor, EaseDelta(update[r].Performance)), Lit(130))
    /\ \E row \in Rows : row.ID = update[r].progress.ID /\ row.EaseFactor = Lit(130)

\* the slots holding a computed record: computed and not yet saved, or applied
Graded == {r \in Slots : update[r].pc = "save"} \cup Applied
\* the stored row a slot's request created or saved
RowOf(r) == {row \in Rows : row.ID = update[r].progress.ID}

\* C2: a grading with performance < 3 yields interval 1 and status "learning"
\* whatever the prior record (absent, learning or review, any interval and
\* ease), also for a review record of interval 30 graded 2
C2_FailureResets ==
  /\ \A r \in Graded :
       update[r].Performance < 3 =>
         /\ update[r].progress.Interval = 1
         /\ update[r].progress.Status = "learning"
         /\ r \in Applied =>
              \A row \in RowOf(r) : row.Interval = 1 /\ row.Status = "learning"
  /\ \A ef \in {Lit(130), Lit(250), Lit(260)} :
       LET prior == [NewProgress(1, 1) EXCEPT !.ID = 1, !.Status = "review",
                       !.Interval = 30, !.EaseFactor = ef, !.ReviewCount = 5,
                       !.CorrectCount = 5]
           next == advance(prior, 2, clock)
       IN  next.Interval = 1 /\ next.Status = "learning"
\* a record in status "review" was graded below 3 and stored
C2_Witness ==
  \E r \in Applied :
    /\ update[r].Performance < 3
    /\ update[r].read.Status = "review"
    /\ update[r].read.Interval > 21
    /\ \E row \in RowOf(r) : row.Interval = 1 /\ row.Status = "learning"

\* C3: at most one progress record exists per (user_id, card_id), in every
\* reachable state and for every interleaving of UpdateCardProgress requests
C3_OneRecordPerKey ==
  \A i, j \in 1..Len(card_progresses) :
    (/\ card_progresses[i].UserID = card_progresses[j].UserID
     /\ card_progresses[i].CardID = card_progresses[j].CardID) => i = j

\* C4: when two requests read the same existing row before either saved it, the
\* save of the second overwrites the save of the first: the row becomes
\* advance(row read, performance of the last writer), its review count is one
\* more than the one read, and both requests are answered 200
C4_LastWriteWins ==
  [][\A r, s \in Slots :
       (/\ r # s
        /\ update[r].pc = "save" /\ update'[r].pc = "done"
        /\ s \in Applied
        /\ ~update[r].isNew /\ ~update[s].isNew
        /\ update[r].read = update[s].read)
       => /\ card_progresses'[update[r].read.ID] =
               advance(update[r].read, update[r].Performance,
                       update[r].progress.LastReviewedAt)
          /\ card_progresses'[update[r].read.ID].ReviewCount =
               update[r].read.ReviewCount + 1
          /\ update'[r].code = 200 /\ update'[s].code = 200]_vars
\* both requests read the same row and were applied with different grades, and
\* the stored row holds only one of the two gradings
C4_Witness ==
  \E r, s \in Applied :
    /\ r # s
    /\ ~update[r].isNew /\ ~update[s].isNew
    /\ update[r].read = update[s].read
    /\ update[r].Performance # update[s].Performance
    /\ card_progresses[update[r].read.ID] = update[r].progress
    /\ card_progresses[update[r].read.ID] # update[s].progress
    /\ card_progresses[update[r].read.ID].ReviewCount = update[r].read.ReviewCount + 1

\* a GetNextCards response that lists and counts cards (a deck with cards)
Selected == selection.code = 200 /\ "due_count" \in DOMAIN selection
\* the limit in force for a requested limit
EffectiveLimit(reqLimit) == IF reqLimit <= 0 THEN 20 ELSE reqLimit
\* the rows of user userID for card cardID
RecordsOf(userID, cardID) ==
  {row \in Rows : row.UserID = userID /\ row.CardID = cardID}

\* C5: GetNextCards never returns more than limit cards, and in the returned
\* sequence every card with status "due" precedes every card with status "new"
C5_LimitAndDueFirst ==
  Selected =>
    /\ Len(selection.cards) <= EffectiveLimit(selection.request.Limit)
    /\ \A i, j \in 1..Len(selection.cards) :
         (selection.cards[i].status = "new" /\ selection.cards[j].status = "due")
           => j < i
\* a batch cut at limit 2 that holds a due card followed by a new card while
\* another new card is left out
C5_Witness ==
  /\ Selected
  /\ selection.request.Limit = 2
  /\ Len(selection.cards) = 2
  /\ selection.cards[1].status = "due"
  /\ selection.cards[2].status = "new"
  /\ selection.due_count + selection.new_count > 2

\* C6 as claimed: no record -> new; record with next_review_date <= now -> due;
\* record with next_review_date > now -> learning; so a record whose
\* next_review_date equals now is due
C6_DueAtOrBeforeNow ==
  Selected =>
    LET u == selection.request.userID
        ids == CardIDs(selection.request.DeckID)
    IN  /\ selection.new_count = Cardinality({c \in ids : RecordsOf(u, c) = {}})
        /\ selection.due_count = Cardinality({c \in ids :
             \E row \in RecordsOf(u, c) : row.NextReviewDate <= clock})
        /\ selection.learning_count = Cardinality({c \in ids :
             \E row \in RecordsOf(u, c) : row.NextReviewDate > clock})
\* C6 as amended: no record -> new; record with next_review_date < now -> due;
\* record with next_review_date >= now -> learning; so a record whose
\* next_review_date equals now is learning, and is not returned
C6_DueStrictlyBeforeNow ==
  Selected =>
    LET u == selection.request.userID
        ids == CardIDs(selection.request.DeckID)
    IN  /\ selection.new_count = Cardinality({c \in ids : RecordsOf(u, c) = {}})
        /\ selection.due_count = Cardinality({c \in ids :
             \E row \in RecordsOf(u, c) : row.NextReviewDate < clock})
        /\ selection.learning_count = Cardinality({c \in ids :
             \E row \in RecordsOf(u, c) : row.NextReviewDate >= clock})
        /\ \A i \in 1..Len(selection.cards) :
             LET e == selection.cards[i]
             IN  /\ e.status = "new" => RecordsOf(u, e.card) = {}
                 /\ e.status = "due" =>
                      \E row \in RecordsOf(u, e.card) : row.NextReviewDate < clock
\* a selection made at the very instant a record's next_review_date is reached,
\* next to a card that is due and a card that is new
C6_Witness ==
  /\ Selected
  /\ \E c \in CardIDs(selection.request.DeckID) :
       \E row \in RecordsOf(selection.request.userID, c) : row.NextReviewDate = clock
  /\ selection.learning_count = 1
  /\ selection.due_count = 1
  /\ selection.new_count = 1

\* C7: a card classified learning (record exists, not yet due) is never in the
\* batch returned by GetNextCards, whatever the limit and the deck contents; it
\* only adds to learning_count
C7_LearningNeverReturned ==
  Selected =>
    LET u == selection.request.userID
        learning == {c \in CardIDs(selection.request.DeckID) :
                       \E row \in RecordsOf(u, c) : ~(row.NextReviewDate < clock)}
    IN  /\ \A i \in 1..Len(selection.cards) : selection.cards[i].card \notin learning
        /\ selection.learning_count = Cardinality(learning)
\* a batch with room left under the limit that still leaves a learning card out
C7_Witness ==
  /\ Selected
  /\ selection.learning_count >= 1
  /\ Len(selection.cards) >= 1
  /\ Len(selection.cards) < EffectiveLimit(selection.request.Limit)

\* C8: the status computed by a successful grading (performance >= 3) is
\* "learning" if the prior status was "new" (or the record was absent),
\* otherwise "review" if the new interval is > 21, otherwise the prior status
C8_StatusAfterSuccess ==
  \A r \in Graded :
    update[r].Performance >= 3 =>
      update[r].progress.Status =
        IF update[r].isNew \/ update[r].read.Status = "new" THEN "learning"
        ELSE IF update[r].progress.Interval > 21 THEN "review"
        ELSE update[r].read.Status
\* a learning record was graded successfully into an interval above 21 and
\* stored with status "review"
C8_Witness ==
  \E r \in Applied :
    /\ update[r].Performance >= 3
    /\ update[r].read.Status = "learning"
    /\ \E row \in RowOf(r) : row.Interval > 21 /\ row.Status = "review"

\* C9: a progress record has status "new" only while its review_count is 0;
\* once review_count > 0 its status is "learning" or "review", and no later
\* grading returns it to "new"
C9_NewOnlyBeforeFirstReview ==
  /\ \A row \in Rows :
       /\ row.Status = "new" => row.ReviewCount = 0
       /\ row.ReviewCount > 0 => row.Status \in {"learning", "review"}
  /\ \A r \in Slots :
       update[r].pc \in {"compute", "save", "done"} =>
         /\ update[r].progress.Status = "new" => update[r].progress.ReviewCount = 0
         /\ update[r].progress.ReviewCount > 0 =>
              update[r].progress.Status \in {"learning", "review"}
\* a record created by a successful first grading is stored with one review,
\* and a later grading of it is stored too
C9_Witness ==
  \E r \in Applied :
    /\ ~update[r].isNew
    /\ update[r].read.ReviewCount = 1
    /\ update[r].read.CorrectCount = 1
    /\ \E row \in RowOf(r) : row.ReviewCount = 2 /\ row.Status = "learning"

\* C10: a first-ever successful grading (performance >= 3, no prior record)
\* yields a record with interval 1
C10_FirstSuccessIntervalOne ==
  \A r \in Graded :
    (update[r].isNew /\ update[r].Performance >= 3) =>
      /\ update[r].progress.Interval = 1
      /\ r \in Applied => \A row \in RowOf(r) : row.Interval = 1
\* a first grading with performance >= 3 was stored
C10_Witness ==
  \E r \in Applied :
    /\ update[r].isNew
    /\ update[r].Performance >= 3
    /\ \E row \in RowOf(r) : row.Interval = 1 /\ row.ReviewCount = 1

\* C11: a successful grading (performance >= 3) of a record whose prior
\* interval is 1 yields interval 6; so the second of two consecutive successful
\* gradings from an absent record yields 6
C11_SecondSuccessIntervalSix ==
  \A r \in Graded :
    (update[r].Performance >= 3 /\ update[r].read.Interval = 1) =>
      /\ update[r].progress.Interval = 6
      /\ r \in Applied => \A row \in RowOf(r) : row.Interval = 6
\* the second of two successful gradings from an absent record was stored
C11_Witness ==
  \E r \in Applied :
    /\ update[r].Performance >= 3
    /\ update[r].read.Interval = 1
    /\ update[r].read.ReviewCount = 1
    /\ update[r].read.CorrectCount = 1
    /\ \E row \in RowOf(r) : row.Interval = 6 /\ row.ReviewCount = 2

\* floor(n * x) of the real product of an integer n >= 0 with the float64 x
FloorProduct(n, x) ==
  IF (n * x.c) % 100 = 0 /\ n * x.r < 0 THEN ((n * x.c) \div 100) - 1
  ELSE (n * x.c) \div 100

\* C12: a successful grading of a record with prior interval >= 2 yields
\* interval = floor(prior interval * ef'), ef' being the ease factor this same
\* grading stores (updated and clamped), not the one it read; ease 2.5,
\* interval 6, performance 5 gives ease 2.6, interval 15, status unchanged
C12_IntervalIsFloorOfProduct ==
  /\ \A r \in Graded :
       (update[r].Performance >= 3 /\ update[r].read.Interval >= 2) =>
         /\ update[r].progress.Interval =
              FloorProduct(update[r].read.Interval, update[r].progress.EaseFactor)
         /\ r \in Applied =>
              \A row \in RowOf(r) :
                row.Interval = FloorProduct(update[r].read.Interval, row.EaseFactor)
  /\ \A status \in {"learning", "review"} :
       LET prior == [NewProgress(1, 1) EXCEPT !.ID = 1, !.Status = status,
                       !.Interval = 6, !.ReviewCount = 2, !.CorrectCount = 2]
           next == advance(prior, 5, clock)
       IN  /\ next.EaseFactor = Lit(260)
           /\ next.Interval = 15
           /\ next.Status = status

\* a float64 ease factor rounded to two decimals, in hundredths
Hundredths(x) == x.c

\* C13: the ease factor after a grading is max(1.3, ef + d(performance)) with
\* d = +0.10, 0, -0.14, -0.32, -0.54 for performance 5, 4, 3, 2, 1 (in
\* hundredths; the stored float64 is within 2^-43 hundredths of that decimal);
\* performance >= 4 never lowers the ease factor, and performance <= 3
\* strictly lowers it unless it is already at the floor
C13_EaseFactorUpdate ==
  \A r \in Graded :
    LET old == update[r].read.EaseFactor
        new == update[r].progress.EaseFactor
        performance == update[r].Performance
        d == <<0 - 54, 0 - 32, 0 - 14, 0, 10>>[performance]
        sum == Hundredths(old) + d
    IN  /\ Hundredths(new) = IF sum < 130 THEN 130 ELSE sum
        /\ 0 - 2 ^ 17 < new.r /\ new.r < 2 ^ 17
        /\ performance >= 4 => ~FLess(new, old)
        /\ performance <= 3 => (FLess(new, old) \/ old = Lit(130))
        /\ r \in Applied => \A row \in RowOf(r) : row.EaseFactor = new
\* a record whose ease factor is at the floor was graded 3 and stored with the
\* ease factor still at the floor
C13_Witness ==
  \E r \in Applied :
    /\ update[r].Performance = 3
    /\ update[r].read.EaseFactor = Lit(130)
    /\ \E row \in RowOf(r) : row.EaseFactor = Lit(130)

\* C14: each accepted grading increases review_count by exactly 1 and
\* correct_count by 1 if performance >= 3 and by 0 otherwise; so after n
\* sequential accepted gradings of one (user, card) pair review_count = n and
\* correct_count = the number of those gradings with performance >= 3
C14_CountsFollowGradings ==
  /\ \A r \in Graded :
       /\ update[r].progress.ReviewCount = update[r].read.ReviewCount + 1
       /\ update[r].progress.CorrectCount =
            update[r].read.CorrectCount + (IF update[r].Performance >= 3 THEN 1 ELSE 0)
       /\ r \in Applied =>
            \A row \in RowOf(r) :
              /\ row.ReviewCount = update[r].progress.ReviewCount
              /\ row.CorrectCount = update[r].progress.CorrectCount
  /\ \A row \in Rows :
       /\ <<row.UserID, row.CardID>> \in DOMAIN accepted
       /\ row.ReviewCount = accepted[<<row.UserID, row.CardID>>].gradings
       /\ row.CorrectCount = accepted[<<row.UserID, row.CardID>>].correct
\* after three accepted gradings, the last one graded 3 and one of the others
\* below 3, the row counts three reviews and two correct ones
C14_Witness ==
  \E r \in Applied :
    /\ update[r].Performance = 3
    /\ accepted[<<update[r].userID, update[r].CardID>>] = [gradings |-> 3, correct |-> 2]
    /\ \E row \in RowOf(r) : row.ReviewCount = 3 /\ row.CorrectCount = 2

\* C15: every record written by a grading has last_reviewed_at = the time of
\* that grading (the clock when the update was computed) and next_review_date
\* = last_reviewed_at + interval days, interval being the one stored in the
\* same record
C15_ReviewDates ==
  /\ [](\A row \in Rows :
         /\ row.LastReviewedAt >= 0 /\ row.LastReviewedAt <= clock
         /\ row.NextReviewDate = row.LastReviewedAt + row.Interval * TicksPerDay)
  /\ [][\A r \in Slots :
         /\ (update[r].pc = "compute" /\ update'[r].pc = "save") =>
              /\ update'[r].progress.LastReviewedAt = clock
              /\ update'[r].progress.NextReviewDate =
                   clock + update'[r].progress.Interval * TicksPerDay
         /\ (update[r].pc = "save" /\ update'[r].pc = "done") =>
              \E row \in Range(card_progresses') :
                /\ row.ID = update'[r].progress.ID
                /\ row.LastReviewedAt = update[r].progress.LastReviewedAt
                /\ row.Interval = update[r].progress.Interval
                /\ row.NextReviewDate = update[r].progress.NextReviewDate]_vars
\* a second successful grading, made after the clock had advanced, was stored
\* with interval 6 and a review date six days after the time of the grading
C15_Witness ==
  \E r \in Applied :
    \E row \in RowOf(r) :
      /\ row.Interval = 6
      /\ row.LastReviewedAt >= 1
      /\ row.LastReviewedAt > update[r].read.LastReviewedAt
      /\ row.NextReviewDate = row.LastReviewedAt + 6 * TicksPerDay

\* the IDs of a list of cards, in the order of the list
IDsOf(cards) == [i \in 1..Len(cards) |-> cards[i].ID]

\* C16: the batch of GetNextCards is exactly the deck's due cards in the order
\* of the listing, truncated to limit, followed by the deck's new cards in that
\* order filling the remaining slots; its length is min(limit, due_count +
\* new_count), a new card is returned only if every due card is, and no card
\* appears twice; a deck of 3 cards without records and limit 20 gives those 3
\* cards, all "new", and due_count 0
C16_BatchIsDueThenNew ==
  Selected =>
    LET u == selection.request.userID
        limit == EffectiveLimit(selection.request.Limit)
        IsDue(c) == \E row \in RecordsOf(u, c) : row.NextReviewDate < clock
        IsNew(c) == RecordsOf(u, c) = {}
        listed == DeckCards(selection.request.DeckID)
        due == IDsOf(SelectSeq(listed, LAMBDA card : IsDue(card.ID)))
        new == IDsOf(SelectSeq(listed, LAMBDA card : IsNew(card.ID)))
        dueOut == SubSeq(due, 1, Min(limit, Len(due)))
        newOut == SubSeq(new, 1, Min(limit - Len(dueOut), Len(new)))
        batch == selection.cards
    IN  /\ [i \in 1..Len(batch) |-> batch[i].card] = dueOut \o newOut
        /\ \A i \in 1..Len(batch) :
             batch[i].status = IF i <= Len(dueOut) THEN "due" ELSE "new"
        /\ Len(batch) = Min(limit, selection.due_count + selection.new_count)
        /\ (\E i \in 1..Len(batch) : batch[i].status = "new") =>
             \A c \in Range(due) : \E i \in 1..Len(batch) : batch[i].card = c
        /\ \A i, j \in 1..Len(batch) : batch[i].card = batch[j].card => i = j
        /\ (selection.request.Limit = 20 /\ Len(DeckCards(selection.request.DeckID)) = 3
               /\ Rows = {}) =>
             /\ Len(batch) = 3
             /\ \A i \in 1..3 : batch[i].status = "new"
             /\ selection.due_count = 0
\* two cards of the deck are due and one is new, and the batch of limit 1 is
\* the first due card alone
C16_Witness ==
  /\ Selected
  /\ selection.request.Limit = 1
  /\ selection.due_count = 2
  /\ selection.new_count = 1
  /\ Len(selection.cards) = 1
  /\ selection.cards[1].status = "due"
  /\ \E c \in CardIDs(selection.request.DeckID) :
       /\ c > selection.cards[1].card
       /\ \E row \in RecordsOf(selection.request.userID, c) : row.NextReviewDate < clock

\* what a GetNextCards response tells the caller
Result(response) == [f \in DOMAIN response \ {"request"} |-> response[f]]

\* C17: GetNextCards called with limit <= 0 (zero, negative or omitted)
\* returns the same result as the same call with limit 20, both when it lists
\* cards and when the request is refused or the deck has no card
C17_DefaultLimit ==
  /\ (selection.code = 200 /\ selection.request.Limit <= 0) =>
       Result(selection) =
         Result(NextCardsResponse(selection.request.userID,
                                  selection.request.DeckID, 20, clock))
  /\ \A q \in {x \in SelectionRequests : x[1] # 1 \/ DeckCards(x[2]) = <<>>} :
       \A limit \in {0 - 1, 0} :
         Result(NextCardsResponse(q[1], q[2], limit, clock)) =
           Result(NextCardsResponse(q[1], q[2], 20, clock))
\* a request without a limit on a deck with more than 20 new cards returned
\* exactly 20 of them
C17_Witness ==
  /\ Selected
  /\ selection.request.Limit <= 0
  /\ selection.new_count > 20
  /\ Len(selection.cards) = 20

\* C18: GetNextCards on a deck with zero cards answers 200 with an empty
\* batch and the message "No cards in this deck", not an error; the message is
\* sent if and only if the deck has zero cards (a deck whose cards are all
\* learning gives an empty batch without the message)
C18_EmptyDeckSignal ==
  /\ selection.code = 200 =>
       /\ ("message" \in DOMAIN selection) <=> (CardIDs(selection.request.DeckID) = {})
       /\ ("message" \in DOMAIN selection) =>
            /\ selection.cards = <<>>
            /\ selection.message = "No cards in this deck"
  /\ \A deck \in Range(decks) :
       CardIDs(deck.ID) = {} =>
         NextCardsResponse(deck.UserID, deck.ID, 0, clock).code = 200
\* after gradings were stored, the owner asked for cards of a deck that has
\* none and got the empty batch with the message
C18_Witness ==
  /\ selection.code = 200
  /\ "message" \in DOMAIN selection
  /\ selection.cards = <<>>
  /\ CardIDs(selection.request.DeckID) = {}
  /\ Rows # {}

\* C19: GetNextCards and GetStudyStats leave the progress-record store
\* unchanged: they create no record and modify no field of any record, for
\* every request, answered 200 or refused
C19_ReadersLeaveStoreUnchanged ==
  [][((\E q \in DeckRequests : GetNextCards(q[1], q[2], q[3]))
        \/ (\E q \in StatsRequests : GetStudyStats(q[1], q[2])))
     => card_progresses' = card_progresses]_vars
\* GetStudyStats answered a user who has records, from a store that also
\* holds records of the other user
C19_Witness ==
  /\ reply.code = 200
  /\ "daily_activity" \in DOMAIN reply
  /\ Len(reply.daily_activity) >= 1
  /\ \E row \in Rows : row.UserID = reply.request.userID
  /\ \E row \in Rows : row.UserID # reply.request.userID

\* the card IDs that occur in the cards table, in the store or in the history
KnownCardIDs ==
  {card.ID : card \in Range(flash_cards)} \cup {row.CardID : row \in Rows}
    \cup {key[2] : key \in DOMAIN accepted}
\* the gradings of the card by the user that were answered 200
GradingsAccepted(userID, cardID) ==
  IF <<userID, cardID>> \in DOMAIN accepted
  THEN accepted[<<userID, cardID>>].gradings ELSE 0

\* C20: a progress record for (user, card) exists if and only if at least one
\* grading of that card by that user has been accepted; CreateCard,
\* BulkImportCards and GetNextCards create no record, and the first accepted
\* grading creates exactly one
C20_RecordIffGraded ==
  /\ [](\A u \in Users : \A c \in KnownCardIDs :
         (RecordsOf(u, c) # {}) <=> (GradingsAccepted(u, c) >= 1))
  /\ [][/\ ((\E u \in Users, d \in {0, 3} : CreateCard(u, d))
              \/ (\E u \in Users, d \in {0, 3} : BulkImportCards(u, d, 2))
              \/ (\E q \in DeckRequests : GetNextCards(q[1], q[2], q[3])))
            => card_progresses' = card_progresses
        /\ \A u \in Users : \A c \in KnownCardIDs :
             (GradingsAccepted(u, c) = 0 /\ GradingsAccepted(u, c)' = 1) =>
               /\ RecordsOf(u, c) = {}
               /\ Cardinality(RecordsOf(u, c)') = 1
               /\ Len(card_progresses') = Len(card_progresses) + 1]_vars
\* of two cards added to deck 3 one was graded once and has exactly one
\* record, the other was listed as new by GetNextCards and has none
C20_Witness ==
  /\ Created = 2
  /\ Selected
  /\ selection.request.DeckID = 3
  /\ selection.new_count = 1
  /\ selection.learning_count = 1
  /\ \E c \in CardIDs(3) :
       /\ Cardinality(RecordsOf(selection.request.userID, c)) = 1
       /\ GradingsAccepted(selection.request.userID, c) = 1
  /\ \E c \in CardIDs(3) :
       /\ RecordsOf(selection.request.userID, c) = {}
       /\ GradingsAccepted(selection.request.userID, c) = 0

\* the progress records of a user, as stored
RecordsOfUser(userID) == SelectSeq(card_progresses, LAMBDA row : row.UserID = userID)
\* the deck_id values of the requests compared: none, the public deck 2 and
\* deck 3
ComparedDeckIDs == {0, 2, 3}

\* C21: a grading by user u of card c changes no progress record other than
\* the one keyed (u, c), and the results of GetNextCards and GetStudyStats for
\* a user (daily_activity included) do not depend on the records of any other
\* user: the stores before and after a step that changes the store, and that
\* agree on the user's records, give the user identical results
C21_OwnRecordsOnly ==
  [][/\ \A r \in Slots :
          (update[r].pc = "save" /\ update'[r].pc = "done") =>
            /\ Len(card_progresses') >= Len(card_progresses)
            /\ \A i \in 1..Len(card_progresses) :
                 (card_progresses[i].UserID # update[r].userID
                    \/ card_progresses[i].CardID # update[r].CardID)
                   => card_progresses'[i] = card_progresses[i]
            /\ \A i \in (Len(card_progresses) + 1)..Len(card_progresses') :
                 /\ card_progresses'[i].UserID = update[r].userID
                 /\ card_progresses'[i].CardID = update[r].CardID
     /\ \A u \in Users :
          (/\ card_progresses' # card_progresses
           /\ RecordsOfUser(u)' = RecordsOfUser(u)
           /\ flash_cards' = flash_cards
           /\ clock' = clock) =>
            \A d \in ComparedDeckIDs :
              /\ StatsResponse(u, d, clock)' = StatsResponse(u, d, clock)
              /\ \A limit \in {0, 1} :
                   NextCardsResponse(u, d, limit, clock)'
                     = NextCardsResponse(u, d, limit, clock)]_vars
\* a grading of a card by one user was stored while the other user holds a
\* record of the same card
C21_Witness ==
  \E r \in Applied :
    /\ \E row \in RowOf(r) :
         row.UserID = update[r].userID /\ row.CardID = update[r].CardID
    /\ \E row \in Rows :
         row.UserID # update[r].userID /\ row.CardID = update[r].CardID

\* the (user, card) key a slot's request targets
Key(r) == <<update[r].userID, update[r].CardID>>
\* the store as the map from each (user, card) key to its records, in
\* primary-key order and without the primary keys
ByKey(store) ==
  [key \in {<<row.UserID, row.CardID>> : row \in Range(store)} |->
     LET rows == SelectSeq(store, LAMBDA row : <<row.UserID, row.CardID>> = key)
     IN  [i \in 1..Len(rows) |-> [rows[i] EXCEPT !.ID = 0]]]
\* one grading run alone on a store: lookup, update and save with no step of
\* another request in between
Grade(store, userID, cardID, performance, now) ==
  LET idx == {i \in 1..Len(store) :
                store[i].UserID = userID /\ store[i].CardID = cardID}
  IN  IF idx = {}
      THEN Append(store, [advance(NewProgress(userID, cardID), performance, now)
                            EXCEPT !.ID = Len(store) + 1])
      ELSE LET first == CHOOSE i \in idx : \A j \in idx : i <= j
           IN  [store EXCEPT ![first] = advance(store[first], performance, now)]
\* the grading of slot r run alone on a store, at the time it was computed
GradeOf(store, r) ==
  Grade(store, update[r].userID, update[r].CardID, update[r].Performance,
        update[r].progress.LastReviewedAt)
\* a store without the grading of slot r: its row as r read it, or no row
Undo(store, r) ==
  IF update[r].isNew
  THEN SelectSeq(store, LAMBDA row : row.ID # update[r].progress.ID)
  ELSE [i \in 1..Len(store) |->
          IF store[i].ID = update[r].read.ID THEN update[r].read ELSE store[i]]
\* the gradings of slots r and s ran concurrently: each looked its record up
\* before the other one saved
Overlapped(r, s) ==
  update[r].seen < update[s].order /\ update[s].seen < update[r].order

\* C22: concurrent gradings that target different (user, card) keys need no
\* coordination: for every interleaving of their read and write steps the
\* final store equals, as a map from keys to records, the store produced by
\* running the same gradings one after the other, in either order
C22_DifferentKeysCommute ==
  \A r, s \in Applied :
    (r # s /\ Key(r) # Key(s) /\ Overlapped(r, s) /\ C3_OneRecordPerKey) =>
      LET before == Undo(Undo(card_progresses, r), s)
      IN  /\ ByKey(GradeOf(GradeOf(before, r), s)) = ByKey(card_progresses)
          /\ ByKey(GradeOf(GradeOf(before, s), r)) = ByKey(card_progresses)
\* two users graded the same public card concurrently, one of them for the
\* first time and the other one not, and both gradings were stored
C22_Witness ==
  \E r, s \in Applied :
    /\ update[r].userID # update[s].userID
    /\ update[r].CardID = update[s].CardID
    /\ Overlapped(r, s)
    /\ ~update[r].isNew /\ update[s].isNew
    /\ update[r].progress.ID < update[s].progress.ID
    /\ C3_OneRecordPerKey
    /\ \E row \in RowOf(r) : row = update[r].progress
    /\ \E row \in RowOf(s) : row = update[s].progress

\* the slots whose request was rejected
Rejected == {r \in Slots : update[r].pc = "done" /\ update[r].code \in {400, 403, 404}}

\* C23: an UpdateCardProgress request with performance outside 1..5 (0 for a
\* missing one) is rejected with 400 before any lookup or scheduling
\* computation, and every rejected request (invalid performance, unknown card,
\* card in another user's non-public deck) leaves the progress-record store
\* unchanged
C23_RejectedBeforeComputation ==
  /\ [](\A r \in Slots :
         /\ (update[r].pc # "idle" /\ update[r].Performance \notin 1..5) =>
              r \in Rejected /\ update[r].code = 400
         /\ (update[r].pc # "idle" /\ update[r].Performance \in 1..5
               /\ update[r].CardID # 0) =>
              /\ FindByID(flash_cards, update[r].CardID) = {} =>
                   r \in Rejected /\ update[r].code = 404
              /\ (\E card \in FindByID(flash_cards, update[r].CardID) :
                    \E deck \in FindByID(decks, card.DeckID) :
                      ~deck.IsPublic /\ deck.UserID # update[r].userID) =>
                   r \in Rejected /\ update[r].code = 403
         /\ r \in Rejected =>
              /\ update[r].read = ZeroProgress
              /\ update[r].progress = ZeroProgress)
  /\ [][\A r \in Slots :
          (update'[r] # update[r] /\ update'[r].pc = "done"
             /\ update'[r].code \in {400, 403, 404}) =>
            /\ update[r].pc \in {"idle", "done"}
            /\ card_progresses' = card_progresses
            /\ accepted' = accepted]_vars
\* with records in the store, a request with performance 6 was rejected
\* while a request of the other slot was between its lookup and its save
C23_Witness ==
  \E r \in Rejected, s \in Slots :
    /\ update[r].Performance = 6
    /\ update[r].code = 400
    /\ update[s].pc = "save"
    /\ Rows # {}

\* a GetStudyStats response that carries statistics
StatsSent == reply.code = 200 /\ "daily_activity" \in DOMAIN reply
\* the records a GetStudyStats request selects: those of the user, within the
\* deck if a deck_id is given
SelectedRecords(userID, deckID) ==
  {row \in Rows :
     /\ row.UserID = userID
     /\ deckID > 0 => row.CardID \in CardIDs(deckID)}
\* how many of the records have the status
CountWithStatus(records, status) ==
  Cardinality({row \in records : row.Status = status})

\* C24 as claimed: GetStudyStats reports new_count, learning_count and
\* review_count each equal to the number of the caller's records (within the
\* deck filter, if given) that have that status, so the three counts sum to
\* the number of those records
C24_CountsPerStatus ==
  StatsSent =>
    LET records == SelectedRecords(reply.request.userID, reply.request.DeckID)
    IN  /\ reply.new_count = CountWithStatus(records, "new")
        /\ reply.learning_count = CountWithStatus(records, "learning")
        /\ reply.review_count = CountWithStatus(records, "review")
        /\ reply.new_count + reply.learning_count + reply.review_count
             = Cardinality(records)

\* C25 as claimed: GetStudyStats reports total_reviewed as the sum of
\* review_count over the caller's selected records and accuracy as
\* total_correct / total_reviewed * 100, total_correct being the sum of
\* correct_count over the same records; accuracy is 0 when total_reviewed is
\* 0 and always lies in [0, 100]
C25_TotalsAndAccuracy ==
  StatsSent =>
    LET records == SelectedRecords(reply.request.userID, reply.request.DeckID)
        rows == SelectSeq(card_progresses, LAMBDA row : row \in records)
        totalReviewed == SumOf(rows, "ReviewCount")
        totalCorrect == SumOf(rows, "CorrectCount")
    IN  /\ reply.total_reviewed = totalReviewed
        /\ reply.accuracy = Accuracy(totalCorrect, totalReviewed)
        /\ reply.total_reviewed = 0 => reply.accuracy.correct = 0
        /\ 0 <= reply.accuracy.correct
        /\ reply.accuracy.correct <= reply.accuracy.reviewed

\* the days in the window [today - 7 days, today] on which a record of the set
\* was last reviewed, ascending, each with the number of those records
ActivityOf(records, now) ==
  LET inWindow == {row \in records :
                     /\ DayOf(row.LastReviewedAt) >= DayOf(now) - 7
                     /\ DayOf(row.LastReviewedAt) <= DayOf(now)}
      days == Ascending({DayOf(row.LastReviewedAt) : row \in inWindow})
  IN  [k \in 1..Len(days) |->
         [date |-> days[k],
          reviews |-> Cardinality({row \in inWindow :
                        DayOf(row.LastReviewedAt) = days[k]})]]

\* C26 as claimed: when a deck filter is given, every statistic returned by
\* GetStudyStats, the daily_activity series included, is computed only over
\* the caller's records whose card belongs to that deck: daily_activity is
\* the series of those records, and a change of the store that leaves those
\* records as they are (a grading of a card of another deck) changes no
\* statistic
C26_DeckFilterOnEveryStatistic ==
  /\ []((StatsSent /\ reply.request.DeckID > 0) =>
          reply.daily_activity =
            ActivityOf(SelectedRecords(reply.request.userID, reply.request.DeckID),
                       clock))
  /\ [][\A u \in Users : \A d \in ComparedDeckIDs \ {0} :
          (/\ card_progresses' # card_progresses
           /\ SelectedRecords(u, d)' = SelectedRecords(u, d)
           /\ flash_cards' = flash_cards
           /\ clock' = clock) =>
            StatsResponse(u, d, clock)' = StatsResponse(u, d, clock)]_vars

\* C27 as claimed: daily_activity is a sparse series in ascending date order:
\* one entry per calendar day of the window [today - 7 days, today] on which
\* at least one selected record has its last_reviewed_at, with the number of
\* such records as value (not the number of grading events); no entry has
\* value 0 and each record is counted in at most one entry
C27_DailyActivitySeries ==
  StatsSent =>
    LET records == SelectedRecords(reply.request.userID, reply.request.DeckID)
        series == reply.daily_activity
    IN  /\ series = ActivityOf(records, clock)
        /\ \A i, j \in 1..Len(series) : i < j => series[i].date < series[j].date
        /\ \A i \in 1..Len(series) :
             /\ series[i].reviews >= 1
             /\ series[i].date >= DayOf(clock) - 7
             /\ series[i].date <= DayOf(clock)
             /\ series[i].reviews =
                  Cardinality({row \in records :
                                 DayOf(row.LastReviewedAt) = series[i].date})
        /\ SumOf(series, "reviews") <= Cardinality(records)

\* C28 as claimed: GetStudyStats reports due_today equal to the number of
\* selected records whose next_review_date is on or before the end of the
\* current calendar day, whatever their status
C28_DueToday ==
  StatsSent =>
    reply.due_today =
      Cardinality({row \in SelectedRecords(reply.request.userID,
                                           reply.request.DeckID) :
                     DayOf(row.NextReviewDate) <= DayOf(clock)})

\* C29 as claimed: GetStudyStats for a user with no progress records, or with
\* none in the filtered deck, returns accuracy 0, the counts new_count,
\* learning_count, review_count, due_today and total_reviewed all 0, and an
\* empty daily_activity
C29_NoRecordsNoStatistics ==
  (StatsSent /\ SelectedRecords(reply.request.userID, reply.request.DeckID) = {}) =>
    /\ reply.accuracy.correct = 0
    /\ reply.new_count = 0
    /\ reply.learning_count = 0
    /\ reply.review_count = 0
    /\ reply.due_today = 0
    /\ reply.total_reviewed = 0
    /\ reply.daily_activity = <<>>

C33_ReturnedOnlyWhenDue ==
  /\ \A row \in Rows : row.NextReviewDate >= row.LastReviewedAt + TicksPerDay
  /\ Selected =>
       LET u == selection.request.userID
           limit == EffectiveLimit(selection.request.Limit)
           batch == selection.cards
       IN  /\ \A c \in CardIDs(selection.request.DeckID) :
                \A row \in RecordsOf(u, c) :
                  /\ clock < row.NextReviewDate =>
                       \A i \in 1..Len(batch) : batch[i].card # c
                  /\ clock > row.NextReviewDate =>
                       \/ \E i \in 1..Len(batch) :
                            batch[i].card = c /\ batch[i].status = "due"
                       \/ /\ Len(batch) = limit
                          /\ \A i \in 1..Len(batch) : batch[i].status = "due"
           /\ selection.due_count =
                Cardinality({c \in CardIDs(selection.request.DeckID) :
                               \E row \in RecordsOf(u, c) : clock > row.NextReviewDate})
\* a batch that returns as "due" a card graded more than a day before and
\* leaves out a card graded less than a day before
C33_Witness ==
  /\ Selected
  /\ \E i \in 1..Len(selection.cards) :
       /\ selection.cards[i].status = "due"
       /\ \E row \in RecordsOf(selection.request.userID, selection.cards[i].card) :
            clock > row.LastReviewedAt + TicksPerDay
  /\ \E c \in CardIDs(selection.request.DeckID) :
       /\ \A i \in 1..Len(selection.cards) : selection.cards[i].card # c
       /\ \E row \in RecordsOf(selection.request.userID, c) :
            /\ clock < row.NextReviewDate
            /\ clock >= row.LastReviewedAt
  /\ Len(selection.cards) < EffectiveLimit(selection.request.Limit)

\* the number of the three bucket predicates that hold of a card
BucketsOf(userID, card, now) ==
  (IF IsNewCard(userID, card) THEN 1 ELSE 0)
    + (IF IsDueCard(userID, card, now) THEN 1 ELSE 0)
    + (IF IsLearningCard(userID, card, now) THEN 1 ELSE 0)

\* C34: GetNextCards on a non-empty deck places every deck card in exactly
\* one of the buckets due, new, learning, so due_count + new_count +
\* learning_count equals the number of cards of the deck, and the three counts
\* describe the whole deck whatever the limit (they are not cut to the batch)
C34_BucketsPartitionDeck ==
  Selected =>
    LET u == selection.request.userID
        d == selection.request.DeckID
        other == NextCardsResponse(u, d, 1, clock)
    IN  /\ \A card \in Range(DeckCards(d)) : BucketsOf(u, card, clock) = 1
        /\ selection.due_count + selection.new_count + selection.learning_count
             = Len(DeckCards(d))
        /\ other.due_count = selection.due_count
        /\ other.new_count = selection.new_count
        /\ other.learning_count = selection.learning_count
\* a batch of one card from a deck with a due, a learning and a new card:
\* the counts add up to the three cards of the deck
C34_Witness ==
  /\ Selected
  /\ selection.request.Limit = 1
  /\ Len(selection.cards) = 1
  /\ selection.due_count >= 1
  /\ selection.learning_count >= 1
  /\ selection.new_count >= 1
  /\ selection.due_count + selection.new_count + selection.learning_count
       = Cardinality(CardIDs(selection.request.DeckID))

\* C35: UpdateCardProgress creates a record only when none exists for the
\* user and card: a request that takes the creating branch (isNew, the grading
\* applied to the default values) has no stored record for its key, also when
\* the lookup failed for another reason than "not found", and no key ever has
\* a second record
C35_CreateOnlyWhenAbsent ==
  /\ \A r \in Slots :
       (update[r].pc \in {"compute", "save"} /\ update[r].isNew) =>
         RecordsOf(update[r].userID, update[r].CardID) = {}
  /\ \A r \in Slots :
       (update[r].pc = "done" /\ update[r].code = 200 /\ update[r].isNew) =>
         Cardinality(RecordsOf(update[r].userID, update[r].CardID)) = 1

\* C36: the result of a grading is determined by the prior record, the
\* performance and the time of the grading: it is advance() of these, in
\* which the time_spent of the request does not occur, so requests that differ
\* only in time_spent store identical records
C36_TimeSpentIgnored ==
  /\ \A r \in Graded :
       LET result == advance(update[r].read, update[r].Performance,
                             update[r].progress.LastReviewedAt)
       IN  update[r].progress = [result EXCEPT !.ID = update[r].progress.ID]
  /\ \A r \in Applied : RowOf(r) = {update[r].progress}
\* a request carrying time_spent 30 was applied to an existing record, one day
\* after the record was last reviewed
C36_Witness ==
  \E r \in Applied :
    /\ update[r].TimeSpent = 30
    /\ ~update[r].isNew
    /\ update[r].progress.LastReviewedAt
         = update[r].read.LastReviewedAt + TicksPerDay

\* the scheduling reached after at most three gradings
EarlyInterval(progress) ==
  /\ progress.ReviewCount = 1 => progress.Interval = 1
  /\ progress.ReviewCount = 2 => progress.Interval \in {1, 6}
  /\ progress.ReviewCount = 3 => progress.Interval <= 16
  /\ progress.Status = "review" => progress.ReviewCount >= 4

\* C37: no record reaches status "review" with review_count < 4: starting
\* from an absent record, for every sequence of performances the first three
\* gradings leave the interval at most 1, 6 and 16 (so <= 21), and at least
\* four gradings are needed before the status can become "review"
C37_ReviewNeedsFourGradings ==
  /\ \A row \in Rows : EarlyInterval(row)
  /\ \A r \in Graded : EarlyInterval(update[r].progress)
\* the fourth grading of a record of interval 16 made it a review record
C37_Witness ==
  \E r \in Applied :
    /\ update[r].read.ReviewCount = 3
    /\ update[r].read.Interval = 16
    /\ update[r].read.Status = "learning"
    /\ \E row \in RowOf(r) : row.ReviewCount = 4 /\ row.Status = "review"

\* C38 as claimed: for the same user, deck and instant, the due_today that
\* GetStudyStats reports with the deck filter is at least the due_count that
\* GetNextCards reports: every card the selector classifies as due is also
\* counted as due today
C38_DueTodayCoversDueCount ==
  (StatsSent /\ reply.request.DeckID > 0) =>
    reply.due_today >=
      NextCardsResponse(reply.request.userID, reply.request.DeckID, 0,
                        clock).due_count

\* C39: in every store reached through gradings GetStudyStats reports
\* new_count 0: a card never graded has no record and every stored record has
\* status "learning" or "review", so the new_count of the statistics does not
\* follow the new_count that GetNextCards reports
C39_StatsNewCountZero ==
  /\ \A row \in Rows : row.Status \in {"learning", "review"}
  /\ \A u \in Users, card \in Range(flash_cards) :
       GradingsAccepted(u, card.ID) = 0 => RecordsOf(u, card.ID) = {}
  /\ StatsSent => reply.new_count = 0
\* statistics on deck 1 answered for a user who has graded a card of the deck,
\* while GetNextCards counts new cards in the deck
C39_Witness ==
  /\ StatsSent
  /\ reply.request.DeckID = 1
  /\ SelectedRecords(reply.request.userID, 1) # {}
  /\ NextCardsResponse(reply.request.userID, 1, 0, clock).new_count >= 1

====
